---- MODULE Spec2Model ----
(***************************************************************************)
(* Model of the flight-row splitting program: the batch driver of          *)
(* src/main.py, the row processor of src/flight_processor.py and the       *)
(* repository of src/database.py.                                          *)
(*                                                                         *)
(* A row is a Python dict: a function from column names to values.  Every  *)
(* value is a string; None stands for Python's None / NaN (pd.notnull is   *)
(* false on it), which is different from the literal text "NULL".          *)
(* Timestamps are whole seconds since 2024-01-01 00:00:00.                 *)
(***************************************************************************)
EXTENDS Integers, Sequences, FiniteSets, TLC

VARIABLES
    table,            \* rows stored in config.MAIN_TABLE, in storage order
    pc,               \* position of process_all_flights
    df,               \* the rows returned by get_all_flights
    index,            \* number of rows the loop has consumed
    processed_count,  \* main.py:40
    success_count,    \* main.py:41
    error_count,      \* main.py:42
    call              \* what the latest process_flight_row call did (see TryBody)

vars == <<table, pc, df, index, processed_count, success_count, error_count, call>>

----------------------------------------------------------------------------
(* Bounds of the model *)

\* most rows in the table at start
MaxRows == 2
\* most segment slots, over the whole table, that may hold something at start
MaxSlots == 3
\* longest sequence given to the grouper when it is called on its own
MaxLen == 3

----------------------------------------------------------------------------
(* Program constants.  The config module is not among the sources; the     *)
(* values are those the other sources hard-code.                           *)

MAX_FLIGHT_ENTRIES == 7
HOURS_THRESHOLD == 24
SecondsPerHour == 3600
FLIGHT_NUMBER_PREFIX == "FlightNumber"
DEPARTURE_DATE_PREFIX == "DepartureDateLocal"
INSERTED_TICKET_NO == "INSERT"
UPDATED_TICKET_NO == "UPDATED"

None == "<None>"

Key(prefix, i) == prefix \o ToString(i)

SegmentColumns ==
    {Key(FLIGHT_NUMBER_PREFIX, i) : i \in 1..7} \cup {Key(DEPARTURE_DATE_PREFIX, i) : i \in 1..7}

AirportColumns == {Key("Airport", i) : i \in 1..8}

\* the columns insert_flight writes
Columns ==
    {"PaxName", "BookingRef", "ETicketNo", "ClientCode", "Airline", "JourneyType"}
        \cup SegmentColumns \cup AirportColumns

\* dict.get(key): None when the key is missing
Get(d, k) == IF k \in DOMAIN d THEN d[k] ELSE None

\* d[key] = value
Put(d, k, v) == [x \in DOMAIN d \cup {k} |-> IF x = k THEN v ELSE d[x]]

----------------------------------------------------------------------------
(* Timestamps *)

\* pd.to_datetime(text, format="%Y-%m-%d %H:%M:%S.%f") on the texts of the model
ParseTable ==
    [t \in {"2024-01-01 08:00:00.000000", "2024-01-01 20:00:00.000000",
            "2024-01-02 08:00:00.000000", "2024-01-05 09:00:00.000000"} |->
        CASE t = "2024-01-01 08:00:00.000000" -> 8 * SecondsPerHour
          [] t = "2024-01-01 20:00:00.000000" -> 20 * SecondsPerHour
          [] t = "2024-01-02 08:00:00.000000" -> (24 + 8) * SecondsPerHour
          [] t = "2024-01-05 09:00:00.000000" -> (4 * 24 + 9) * SecondsPerHour]

\* a text the format rejects raises ValueError
Parses(text) == text \in DOMAIN ParseTable

to_datetime(text) == ParseTable[text]

\* pd.notnull(v)
notnull(v) == v # None

\* str(flight_number).endswith('000')
EndsWith000(flight_number) == flight_number \in {"XY000"}

----------------------------------------------------------------------------
(* FlightProcessor: extraction *)

RECURSIVE ExtractFrom(_, _, _, _)
\* the loop of extract_flight_data_from_row from slot i on
ExtractFrom(row, i, departure_dates, flight_numbers) ==
    IF i > MAX_FLIGHT_ENTRIES
    THEN [departure_dates |-> departure_dates, flight_numbers |-> flight_numbers]
    ELSE LET flight_number == Get(row, Key(FLIGHT_NUMBER_PREFIX, i))
             departure_date_str == Get(row, Key(DEPARTURE_DATE_PREFIX, i))
             flights2 == IF notnull(flight_number) /\ flight_number # "NULL"
                         THEN Append(flight_numbers, flight_number)
                         ELSE flight_numbers
             \* a text that does not parse is logged and left out
             dates2 == IF notnull(departure_date_str) /\ departure_date_str # "NULL"
                          /\ Parses(departure_date_str)
                       THEN Append(departure_dates, to_datetime(departure_date_str))
                       ELSE departure_dates
         IN  ExtractFrom(row, i + 1, dates2, flights2)

extract_flight_data_from_row(row) == ExtractFrom(row, 1, <<>>, <<>>)

\* has_bus_transition: defined by the processor, called from nowhere
has_bus_transition(row) ==
    \E i \in 1..MAX_FLIGHT_ENTRIES :
        LET flight_number == Get(row, Key(FLIGHT_NUMBER_PREFIX, i))
        IN  notnull(flight_number) /\ EndsWith000(flight_number)

----------------------------------------------------------------------------
(* FlightProcessor: grouping *)

\* FlightEntry and FlightGroup are imported from models, where their
\* definitions stand commented out; they are modelled as written there.
FlightEntry(flight_number, departure_date) ==
    [flight_number |-> flight_number, departure_date |-> departure_date]

\* FlightGroup(): a group is the sequence of its entries
EmptyGroup == <<>>

add_entry(group, entry) == Append(group, entry)

is_empty(group) == Len(group) = 0

\* total_seconds() of next_date - first_date; the hours are this over 3600.
\* (The guard "not first_date or not next_date" is never true of a Timestamp.)
calculate_hours_difference(first_date, next_date) == next_date - first_date

\* hours_diff < config.HOURS_THRESHOLD, on seconds
WithinThreshold(diff_seconds) == diff_seconds < HOURS_THRESHOLD * SecondsPerHour

RECURSIVE GroupLoop_DropsFinal(_, _, _, _, _)
\* a bug that forgets "Add final group"
GroupLoop_DropsFinal(i, groups, current_group, departure_dates, flight_numbers) ==
    IF i > Len(departure_dates)
    THEN groups
    ELSE LET current_date == departure_dates[i]
             prev_date == departure_dates[i - 1]
             hours_diff == calculate_hours_difference(prev_date, current_date)
             entry == FlightEntry(flight_numbers[i], current_date)
         IN  IF WithinThreshold(hours_diff)
             THEN GroupLoop_DropsFinal(i + 1, groups, add_entry(current_group, entry),
                                       departure_dates, flight_numbers)
             ELSE GroupLoop_DropsFinal(i + 1, Append(groups, current_group),
                                       add_entry(EmptyGroup, entry),
                                       departure_dates, flight_numbers)

RECURSIVE GroupLoop(_, _, _, _, _)
\* the for loop of group_flights_by_departure_date from position i on (1-based)
GroupLoop(i, groups, current_group, departure_dates, flight_numbers) ==
    IF i > Len(departure_dates)
    THEN IF ~is_empty(current_group) THEN Append(groups, current_group) ELSE groups
    ELSE LET current_date == departure_dates[i]
             prev_date == departure_dates[i - 1]
             hours_diff == calculate_hours_difference(prev_date, current_date)
             entry == FlightEntry(flight_numbers[i], current_date)
         IN  IF WithinThreshold(hours_diff)
             THEN GroupLoop(i + 1, groups, add_entry(current_group, entry),
                            departure_dates, flight_numbers)
             ELSE GroupLoop(i + 1, Append(groups, current_group),
                            add_entry(EmptyGroup, entry),
                            departure_dates, flight_numbers)

\* a bug that drops the length test: the loop then runs over the dates, and
\* flight_numbers[i] raises IndexError when the flight numbers run out
group_flights_NoLengthTest(departure_dates, flight_numbers) ==
    IF Len(departure_dates) = 0
    THEN [exc |-> None, groups |-> <<>>]
    ELSE IF Len(departure_dates) > Len(flight_numbers)
    THEN [exc |-> "IndexError", groups |-> <<>>]
    ELSE [exc |-> None,
          groups |-> GroupLoop(2, <<>>,
                               add_entry(EmptyGroup,
                                         FlightEntry(flight_numbers[1], departure_dates[1])),
                               departure_dates, flight_numbers)]

\* exc is the exception raised (None: returned normally), groups the value returned
group_flights_by_departure_date(departure_dates, flight_numbers) ==
    IF Len(departure_dates) # Len(flight_numbers)
    THEN [exc |-> "FlightProcessorError", groups |-> <<>>]
    ELSE IF Len(departure_dates) = 0
    THEN [exc |-> None, groups |-> <<>>]
    ELSE [exc |-> None,
          groups |-> GroupLoop(2, <<>>,
                               add_entry(EmptyGroup,
                                         FlightEntry(flight_numbers[1], departure_dates[1])),
                               departure_dates, flight_numbers)]

----------------------------------------------------------------------------
(* FlightProcessor: row builders *)

RECURSIVE InsertEntryLoop(_, _, _, _, _)
\* the inner loop of create_insert_row_data: entry_idx counts from 0
InsertEntryLoop(insert_data, original_row, group_idx, entry_idx, group) ==
    IF entry_idx >= Len(group) \/ group_idx + entry_idx >= MAX_FLIGHT_ENTRIES
    THEN insert_data
    ELSE LET target_idx == group_idx + entry_idx
             d1 == Put(insert_data, Key(FLIGHT_NUMBER_PREFIX, target_idx),
                       Get(original_row, Key(FLIGHT_NUMBER_PREFIX, target_idx + 1)))
             d2 == Put(d1, Key(DEPARTURE_DATE_PREFIX, target_idx),
                       Get(original_row, Key(DEPARTURE_DATE_PREFIX, target_idx + 1)))
             d3 == Put(d2, Key(FLIGHT_NUMBER_PREFIX, target_idx + 1), None)
             d4 == Put(d3, Key(DEPARTURE_DATE_PREFIX, target_idx + 1), None)
         IN  InsertEntryLoop(d4, original_row, group_idx, entry_idx + 1, group)

RECURSIVE InsertGroupLoop(_, _, _, _)
\* the outer loop of create_insert_row_data: group_idx counts from 1, g is the
\* position in groups
InsertGroupLoop(insert_data, original_row, g, groups) ==
    IF g > Len(groups) \/ g >= MAX_FLIGHT_ENTRIES
    THEN insert_data
    ELSE InsertGroupLoop(InsertEntryLoop(insert_data, original_row, g, 0, groups[g]),
                         original_row, g + 1, groups)

\* dict.copy(): a new dict with the same items
copy(d) == d

RECURSIVE InPlaceGroupLoop(_, _, _)
\* the outer loop when insert_data is the caller's dict itself
InPlaceGroupLoop(row, g, groups) ==
    IF g > Len(groups) \/ g >= MAX_FLIGHT_ENTRIES
    THEN row
    ELSE InPlaceGroupLoop(InsertEntryLoop(row, row, g, 0, groups[g]), g + 1, groups)

\* a bug that leaves out the copy: the writes land in the caller's dict
create_insert_row_data_InPlace(original_row, groups) ==
    IF Len(groups) <= 1
    THEN [built |-> FALSE, row |-> original_row, original |-> original_row]
    ELSE [built |-> TRUE,
          row |-> InPlaceGroupLoop(original_row, 1, groups),
          original |-> InPlaceGroupLoop(original_row, 1, groups)]

\* built is FALSE where the code returns None; row is the dict returned and
\* original the caller's dict after the call
create_insert_row_data(original_row, groups) ==
    IF Len(groups) <= 1
    THEN [built |-> FALSE, row |-> original_row, original |-> original_row]
    ELSE [built |-> TRUE,
          row |-> InsertGroupLoop(copy(original_row), original_row, 1, groups),
          original |-> original_row]

\* the loop of create_update_row_data over the segment slots of update_data
ClearNullLiterals(update_data) ==
    [k \in DOMAIN update_data |->
        IF k \in SegmentColumns /\ update_data[k] = "NULL" THEN None ELSE update_data[k]]

\* a bug that empties the slots after the first, as if they had been moved
\* to the inserted row
create_update_row_data_ClearsMoved(original_row, groups) ==
    [row |-> [k \in DOMAIN original_row |->
                IF \E i \in 2..MAX_FLIGHT_ENTRIES :
                      k \in {Key(FLIGHT_NUMBER_PREFIX, i), Key(DEPARTURE_DATE_PREFIX, i)}
                THEN None
                ELSE ClearNullLiterals(original_row)[k]],
     original |-> original_row]

\* row is the dict returned and original the caller's dict after the call
create_update_row_data(original_row, groups) ==
    [row |-> ClearNullLiterals(copy(original_row)), original |-> original_row]

----------------------------------------------------------------------------
(* FlightRepository.  fault names the statement the store rejects in this  *)
(* call ("none", "insert", "update"): execute_query then raises            *)
(* DatabaseError and the table is left as it was.                          *)

Faults == {"none", "insert", "update"}

\* the row INSERT appends: the listed columns, ETicketNo replaced
InsertedRow(row_data) ==
    [c \in Columns |-> IF c = "ETicketNo" THEN INSERTED_TICKET_NO ELSE Get(row_data, c)]

insert_flight(tbl, row_data, fault) ==
    IF fault = "insert"
    THEN [exc |-> "DatabaseError", table |-> tbl]
    ELSE [exc |-> None, table |-> Append(tbl, InsertedRow(row_data))]

\* UPDATE ... WHERE PaxName = ? AND BookingRef = ?: every matching row
UpdatedRow(stored, row_data) ==
    [c \in DOMAIN stored |->
        IF c = "ETicketNo" THEN UPDATED_TICKET_NO
        ELSE IF c \in SegmentColumns THEN Get(row_data, c)
        ELSE stored[c]]

KeyMatches(stored, row_data) ==
    /\ stored["PaxName"] = Get(row_data, "PaxName")
    /\ stored["BookingRef"] = Get(row_data, "BookingRef")

update_flight(tbl, row_data, fault) ==
    IF fault = "update"
    THEN [exc |-> "DatabaseError", table |-> tbl]
    ELSE [exc |-> None,
          table |-> [i \in DOMAIN tbl |->
                        IF KeyMatches(tbl[i], row_data)
                        THEN UpdatedRow(tbl[i], row_data)
                        ELSE tbl[i]]]

----------------------------------------------------------------------------
(* FlightProcessor.process_flight_row *)

\* FlightRow.from_dataframe_row
from_dataframe_row(row) ==
    [pax_name |-> Get(row, "PaxName"),
     booking_ref |-> Get(row, "BookingRef"),
     client_code |-> Get(row, "ClientCode"),
     airline |-> Get(row, "Airline"),
     journey_type |-> Get(row, "JourneyType"),
     e_ticket_no |-> Get(row, "ETicketNo"),
     airports |-> [i \in 1..8 |-> Get(row, Key("Airport", i))]]

ProcessingResult(row_data, groups, success, message) ==
    [original_row |-> from_dataframe_row(row_data),
     groups |-> groups,
     success |-> success,
     message |-> message]

\* What one run of the try block did.  Fields:
\*   row_data, row_after   the caller's dict before and after the call
\*   departure_dates, flight_numbers   what extraction returned
\*   grouped, groups       whether the grouper was called, and what it returned
\*   built                 the rows the builders made (<<insert_data, update_data>>)
\*   ops                   the repository calls that ran to the end, in order
\*   exc                   the exception raised inside the try block, or None
\*   table_before, table   the stored table before and after
\*   returned              the ProcessingResult of a return statement inside the try
Extracted(row_data, tbl, departure_dates, flight_numbers) ==
    [active |-> TRUE, table_before |-> tbl,
     row_data |-> row_data, row_after |-> row_data,
     departure_dates |-> departure_dates, flight_numbers |-> flight_numbers,
     grouped |-> FALSE, groups |-> <<>>, built |-> <<>>, ops |-> <<>>,
     exc |-> None, table |-> tbl,
     returned |-> ProcessingResult(row_data, <<>>, TRUE, "")]

\* "not departure_dates or not flight_numbers"
NoFlightData_And(departure_dates, flight_numbers) ==
    Len(departure_dates) = 0 /\ Len(flight_numbers) = 0

NoFlightData(departure_dates, flight_numbers) ==
    Len(departure_dates) = 0 \/ Len(flight_numbers) = 0

\* the return of the no-data branch
SkippedReturn(t) ==
    [t EXCEPT !.returned = ProcessingResult(t.row_data, <<>>, TRUE,
                                            "No flight data to process")]

SingleGroupReturn_NoGroups(t) ==
    [t EXCEPT !.returned = ProcessingResult(t.row_data, <<>>, TRUE,
                                            "Single group - no processing needed")]

\* the return of the "len(groups) <= 1" branch
SingleGroupReturn(t) ==
    [t EXCEPT !.returned = ProcessingResult(t.row_data, t.groups, TRUE,
                                            "Single group - no processing needed")]

\* a bug that overwrites the original before the new row is stored
Persist_UpdateFirst(t, insert_data, update_data, fault) ==
    LET r1 == update_flight(t.table, update_data, fault)
    IN  IF r1.exc # None
        THEN [t EXCEPT !.exc = r1.exc]
        ELSE
        LET t1 == [t EXCEPT !.table = r1.table,
                            !.ops = <<[op |-> "update", row |-> update_data]>>]
            r2 == insert_flight(r1.table, insert_data, fault)
        IN  IF r2.exc # None
            THEN [t1 EXCEPT !.exc = r2.exc]
            ELSE [t1 EXCEPT
                    !.table = r2.table,
                    !.ops = Append(t1.ops, [op |-> "insert", row |-> insert_data]),
                    !.returned = ProcessingResult(t.row_data, t.groups, TRUE,
                                                  "Row processed and database updated")]

\* a bug that goes on to update_flight although insert_flight raised
Persist_UpdateAnyway(t, insert_data, update_data, fault) ==
    LET r1 == insert_flight(t.table, insert_data, fault)
        t1 == IF r1.exc # None
              THEN t
              ELSE [t EXCEPT !.table = r1.table,
                             !.ops = <<[op |-> "insert", row |-> insert_data]>>]
        r2 == update_flight(r1.table, update_data, "none")
    IN  [t1 EXCEPT
            !.exc = r1.exc,
            !.table = r2.table,
            !.ops = Append(t1.ops, [op |-> "update", row |-> update_data]),
            !.returned = ProcessingResult(t.row_data, t.groups, TRUE,
                                          "Row processed and database updated")]

\* the "if insert_data:" branch: insert_flight, then update_flight
Persist(t, insert_data, update_data, fault) ==
    LET r1 == insert_flight(t.table, insert_data, fault)
    IN  IF r1.exc # None
        THEN [t EXCEPT !.exc = r1.exc]
        ELSE
        LET t1 == [t EXCEPT !.table = r1.table,
                            !.ops = <<[op |-> "insert", row |-> insert_data]>>]
            r2 == update_flight(r1.table, update_data, fault)
        IN  IF r2.exc # None
            THEN [t1 EXCEPT !.exc = r2.exc]
            ELSE [t1 EXCEPT
                    !.table = r2.table,
                    !.ops = Append(t1.ops, [op |-> "update", row |-> update_data]),
                    !.returned = ProcessingResult(t.row_data, t.groups, TRUE,
                                                  "Row processed and database updated")]

\* the try block of process_flight_row
TryBody(row_data, tbl, fault) ==
    LET ex == extract_flight_data_from_row(row_data)
        t0 == Extracted(row_data, tbl, ex.departure_dates, ex.flight_numbers)
    IN  IF NoFlightData(ex.departure_dates, ex.flight_numbers)
        THEN SkippedReturn(t0)
        ELSE
        LET gr == group_flights_by_departure_date(ex.departure_dates, ex.flight_numbers)
            t1 == [t0 EXCEPT !.grouped = TRUE, !.groups = gr.groups]
        IN  IF gr.exc # None
            THEN [t1 EXCEPT !.exc = gr.exc]
            ELSE IF Len(gr.groups) <= 1
            THEN SingleGroupReturn(t1)
            ELSE
            LET ins == create_insert_row_data(row_data, gr.groups)
                upd == create_update_row_data(ins.original, gr.groups)
                update_data == upd.row
            IN  IF ins.built
                THEN Persist([t1 EXCEPT !.built = <<ins.row, update_data>>,
                                        !.row_after = upd.original],
                             ins.row, update_data, fault)
                ELSE [t1 EXCEPT !.built = <<update_data>>,
                                !.row_after = upd.original,
                                !.returned =
                                    ProcessingResult(row_data, gr.groups, TRUE,
                                                     "No database changes needed")]

\* a bug that lets the exception leave process_flight_row
HandleException_Reraise(t) ==
    t @@ [escaped |-> t.exc # None, result |-> t.returned]

\* the except clause: any exception of the try block becomes a failed result.
\* escaped is TRUE when the exception leaves process_flight_row.
HandleException(t) ==
    IF t.exc = None
    THEN t @@ [escaped |-> FALSE, result |-> t.returned]
    ELSE t @@ [escaped |-> FALSE,
               result |-> ProcessingResult(t.row_data, <<>>, FALSE,
                                           "Processing failed: " \o t.exc)]

process_flight_row(row_data, tbl, fault) == HandleException(TryBody(row_data, tbl, fault))

----------------------------------------------------------------------------
(* The tables the batch may start from *)

ValidDateTexts == DOMAIN ParseTable

\* what one segment slot <<FlightNumber_i, DepartureDateLocal_i>> may hold
SlotValues ==
    {<<"AB123", "2024-01-01 08:00:00.000000">>,
     <<"CD456", "2024-01-01 20:00:00.000000">>,
     <<"AB123", "2024-01-02 08:00:00.000000">>,
     <<"EF789", "2024-01-05 09:00:00.000000">>,
     <<"XY000", "2024-01-01 08:00:00.000000">>,
     <<None, None>>,
     <<"NULL", "NULL">>,
     <<"AB123", "2024-01-01T08:00">>,
     <<None, "2024-01-01 08:00:00.000000">>}

\* a stored row with the given booking reference whose first Len(slots) segment
\* slots hold slots and whose other segment slots are null
MkRow(booking_ref, slots) ==
    [c \in Columns |->
        CASE c = "PaxName" -> "DOE/JOHN"
          [] c = "BookingRef" -> booking_ref
          [] c = "ETicketNo" -> "TKT1"
          [] c = "ClientCode" -> "CL1"
          [] c = "Airline" -> "AL"
          [] c = "JourneyType" -> "OneWay"
          [] c \in AirportColumns -> "APT"
          [] OTHER ->
                LET i == CHOOSE j \in 1..7 :
                            c \in {Key(FLIGHT_NUMBER_PREFIX, j), Key(DEPARTURE_DATE_PREFIX, j)}
                IN  IF i > Len(slots) THEN None
                    ELSE IF c = Key(FLIGHT_NUMBER_PREFIX, i) THEN slots[i][1]
                    ELSE slots[i][2]]

RECURSIVE SumTo(_, _)
SumTo(lens, n) == IF n = 0 THEN 0 ELSE lens[n] + SumTo(lens, n - 1)

\* how many slots each row of a table may fill: at most MaxRows rows, each
\* with 1..MAX_FLIGHT_ENTRIES slots, at most MaxSlots slots in all
RowLengths ==
    {lens \in UNION {[1..n -> 1..MaxSlots] : n \in 0..MaxRows} :
        /\ SumTo(lens, Len(lens)) <= MaxSlots
        /\ \A i \in 1..Len(lens) : lens[i] <= MAX_FLIGHT_ENTRIES}

\* the rows of a table either share one natural key or have a key each
MkTable(lens, fill, shared_key) ==
    [i \in 1..Len(lens) |->
        MkRow(IF shared_key THEN "BR1" ELSE "BR" \o ToString(i),
              [j \in 1..lens[i] |-> fill[SumTo(lens, i - 1) + j]])]

\* tbl is a table the batch may start from
InitialTable(tbl) ==
    \E lens \in RowLengths, shared_key \in BOOLEAN :
        \E fill \in [1..SumTo(lens, Len(lens)) -> SlotValues] :
            tbl = MkTable(lens, fill, shared_key)

----------------------------------------------------------------------------
(* process_all_flights *)

NoCall == [active |-> FALSE]

Init ==
    /\ InitialTable(table)
    /\ pc = "start"
    /\ df = <<>>
    /\ index = 0
    /\ processed_count = 0
    /\ success_count = 0
    /\ error_count = 0
    /\ call = NoCall

\* get_all_flights returns the table; an empty table ends the run
Fetch ==
    /\ pc = "start"
    /\ df' = table
    /\ pc' = IF Len(table) = 0 THEN "done" ELSE "loop"
    /\ UNCHANGED <<table, index, processed_count, success_count, error_count, call>>

\* get_all_flights raises DatabaseError, which process_all_flights re-raises
FetchFails ==
    /\ pc = "start"
    /\ pc' = "aborted"
    /\ UNCHANGED <<table, df, index, processed_count, success_count, error_count, call>>

\* a bug that counts a failed result in neither counter
ProcessRow_DropsErrorCount ==
    /\ pc = "loop"
    /\ index < Len(df)
    /\ \E fault \in Faults :
        \E r \in {process_flight_row(df[index + 1], table, fault)} :
            /\ call' = r
            /\ table' = r.table
            /\ processed_count' = processed_count + 1
            /\ success_count' = IF r.result.success THEN success_count + 1
                                                   ELSE success_count
            /\ UNCHANGED error_count
    /\ index' = index + 1
    /\ pc' = IF index + 1 = Len(df) THEN "done" ELSE "loop"
    /\ UNCHANGED df

\* one iteration of the loop over df.iterrows()
ProcessRow ==
    /\ pc = "loop"
    /\ index < Len(df)
    /\ \E fault \in Faults :
        \E r \in {process_flight_row(df[index + 1], table, fault)} :
            /\ call' = r
            /\ table' = r.table
            /\ IF r.escaped
               THEN \* "except Exception" of the loop body
                    /\ error_count' = error_count + 1
                    /\ UNCHANGED <<processed_count, success_count>>
               ELSE /\ processed_count' = processed_count + 1
                    /\ IF r.result.success
                       THEN success_count' = success_count + 1 /\ UNCHANGED error_count
                       ELSE error_count' = error_count + 1 /\ UNCHANGED success_count
    /\ index' = index + 1
    /\ pc' = IF index + 1 = Len(df) THEN "done" ELSE "loop"
    /\ UNCHANGED df

Next == Fetch \/ FetchFails \/ ProcessRow

Spec == Init /\ [][Next]_vars

----------------------------------------------------------------------------
(* group_flights_by_departure_date called on its own, on any two sequences *)
(* of timestamps and flight numbers                                       *)

Timestamps == {to_datetime(text) : text \in ValidDateTexts}

FlightNumbers == {"AB123", "CD456"}

SeqsUpTo(values, n) == UNION {[1..k -> values] : k \in 0..n}

GroupInit ==
    /\ table = <<>>
    /\ pc = "group"
    /\ df = <<>>
    /\ index = 0
    /\ processed_count = 0
    /\ success_count = 0
    /\ error_count = 0
    /\ \E departure_dates \in SeqsUpTo(Timestamps, MaxLen),
          flight_numbers \in SeqsUpTo(FlightNumbers, MaxLen) :
          call = [active |-> FALSE,
                  departure_dates |-> departure_dates,
                  flight_numbers |-> flight_numbers,
                  groups |-> <<>>,
                  exc |-> None]

ApplyGrouper ==
    /\ pc = "group"
    /\ \E r \in {group_flights_by_departure_date(call.departure_dates,
                                                  call.flight_numbers)} :
          call' = [call EXCEPT !.groups = r.groups, !.exc = r.exc]
    /\ pc' = "grouped"
    /\ UNCHANGED <<table, df, index, processed_count, success_count, error_count>>

GroupNext == ApplyGrouper

GroupSpec == GroupInit /\ [][GroupNext]_vars

----------------------------------------------------------------------------
(* Claims about process_flight_row and the batch loop *)

\* the latest call reached the grouper and the grouper returned
Grouped == call.active /\ call.grouped /\ call.exc # "FlightProcessorError"

\* C1: process_flight_row always returns a ProcessingResult and lets no
\* exception escape; whenever something inside it raised (the grouper, or
\* insert_flight, or update_flight) the result has success = FALSE, and the
\* batch loop goes on: every row consumed so far yielded a result, and the
\* loop stops only after the last fetched row.
C1_RowBoundary ==
    (pc \in {"loop", "done"} /\ index > 0) =>
        /\ call.active
        /\ ~call.escaped
        /\ call.row_data = df[index]
        /\ call.result.original_row = from_dataframe_row(df[index])
        /\ call.result.success \in BOOLEAN
        /\ (call.exc # None => ~call.result.success /\ call.result.groups = <<>>)
        /\ processed_count = index
        /\ (pc = "done" <=> index = Len(df))

\* a first row failed inside process_flight_row and the loop went on to
\* process the second row
C1_Witness ==
    /\ index = 2
    /\ error_count = 1
    /\ processed_count = 2
    /\ call.exc = None

C3_SingleGroup ==
    (Grouped /\ Len(call.groups) = 1) =>
        /\ call.ops = <<>>
        /\ call.exc = None
        /\ table = call.table_before
        /\ call.result.success
        /\ call.result.groups = call.groups

\* a row with two segments twelve hours apart gave one group
C3_Witness ==
    /\ Grouped
    /\ Len(call.groups) = 1
    /\ Len(call.groups[1]) = 2

\* C4: when extraction yields no timestamp or no flight number, the grouper
\* is not called, there is no repository call, the table is unchanged, and
\* the result has no groups and the message "No flight data to process".
C4_Skipped ==
    (call.active /\ (call.departure_dates = <<>> \/ call.flight_numbers = <<>>)) =>
        /\ ~call.grouped
        /\ call.ops = <<>>
        /\ call.exc = None
        /\ table = call.table_before
        /\ call.result.groups = <<>>
        /\ call.result.success
        /\ call.result.message = "No flight data to process"

\* a row with a flight number but no usable date was skipped
C4_Witness ==
    /\ call.active
    /\ call.departure_dates = <<>>
    /\ call.flight_numbers # <<>>
    /\ call.result.message = "No flight data to process"

----------------------------------------------------------------------------
(* Claims about extraction, grouping and the row builders *)

Abs(x) == IF x < 0 THEN 0 - x ELSE x

ThresholdSeconds == HOURS_THRESHOLD * SecondsPerHour

\* the row with every slot whose flight number ends in "000" emptied
WithoutBusLegs(row) ==
    [k \in DOMAIN row |->
        IF \E i \in 1..MAX_FLIGHT_ENTRIES :
                /\ k \in {Key(FLIGHT_NUMBER_PREFIX, i), Key(DEPARTURE_DATE_PREFIX, i)}
                /\ EndsWith000(Get(row, Key(FLIGHT_NUMBER_PREFIX, i)))
        THEN None
        ELSE row[k]]

\* the flight numbers present in the row
PresentFlightNumbers(row) ==
    {Get(row, Key(FLIGHT_NUMBER_PREFIX, i)) : i \in 1..MAX_FLIGHT_ENTRIES} \ {None, "NULL"}

\* C5 as stated: a slot whose flight number ends in "000" adds neither its
\* flight number nor its date to the extracted sequences, and a row all of
\* whose flight numbers end in "000" is skipped with "No flight data to
\* process".
C5_BusLegsExcluded ==
    call.active =>
        /\ [departure_dates |-> call.departure_dates,
            flight_numbers |-> call.flight_numbers]
              = extract_flight_data_from_row(WithoutBusLegs(call.row_data))
        /\ (/\ PresentFlightNumbers(call.row_data) # {}
            /\ \A f \in PresentFlightNumbers(call.row_data) : EndsWith000(f))
              => /\ call.flight_numbers = <<>>
                 /\ call.result.message = "No flight data to process"

Ascending(departure_dates) ==
    \A i, j \in 1..Len(departure_dates) : i < j => departure_dates[i] <= departure_dates[j]

\* the row of the latest call has no flight number ending in "000"
NoBusLegs == ~has_bus_transition(call.row_data)

\* inside a group consecutive timestamps are at most 24 hours apart, and the
\* last timestamp of a group and the first of the next are more than 24 hours
\* apart
BoundaryInclusive ==
        /\ \A g \in 1..Len(call.groups) :
              \A j \in 1..(Len(call.groups[g]) - 1) :
                 call.groups[g][j + 1].departure_date - call.groups[g][j].departure_date
                    <= ThresholdSeconds
        /\ \A g \in 1..(Len(call.groups) - 1) :
              call.groups[g + 1][1].departure_date
                 - call.groups[g][Len(call.groups[g])].departure_date > ThresholdSeconds

\* C6 as stated, for a row without bus legs whose segments are already in
\* ascending timestamp order: a gap of exactly 24 hours does not split, a
\* larger one does.
C6_InclusiveBoundary ==
    (Grouped /\ NoBusLegs /\ Ascending(call.departure_dates)) => BoundaryInclusive

PairwiseFarApart(departure_dates) ==
    \A i, j \in 1..Len(departure_dates) :
        i # j => Abs(departure_dates[i] - departure_dates[j]) > ThresholdSeconds

\* C7 as stated, for a row without bus legs: segments whose timestamps are
\* pairwise more than 24 hours apart, in any slot order, give one group per
\* segment.
C7_EverySegmentIsolated ==
    (Grouped /\ NoBusLegs /\ PairwiseFarApart(call.departure_dates)) =>
        /\ Len(call.groups) = Len(call.departure_dates)
        /\ \A g \in 1..Len(call.groups) : Len(call.groups[g]) = 1

\* every timestamp but the latest has a later one less than 24 hours after it
ChronologicalChain(departure_dates) ==
    \A i \in 1..Len(departure_dates) :
        (\E j \in 1..Len(departure_dates) : departure_dates[j] > departure_dates[i])
            => \E j \in 1..Len(departure_dates) :
                  /\ departure_dates[j] > departure_dates[i]
                  /\ departure_dates[j] - departure_dates[i] < ThresholdSeconds

RECURSIVE InsertByDate(_, _)
\* entry put into the ascending sequence sorted, after the entries of its date
InsertByDate(sorted, entry) ==
    IF sorted = <<>> THEN <<entry>>
    ELSE IF sorted[Len(sorted)].departure_date <= entry.departure_date
    THEN Append(sorted, entry)
    ELSE Append(InsertByDate(SubSeq(sorted, 1, Len(sorted) - 1), entry), sorted[Len(sorted)])

RECURSIVE SortedEntries(_, _, _)
\* the first n segments in ascending timestamp order, ties in slot order
SortedEntries(departure_dates, flight_numbers, n) ==
    IF n = 0 THEN <<>>
    ELSE InsertByDate(SortedEntries(departure_dates, flight_numbers, n - 1),
                      FlightEntry(flight_numbers[n], departure_dates[n]))

\* C8 as stated, for a row without bus legs and with every chronological gap
\* under 24 hours (a gap of exactly 24 hours is the case of C6): there is
\* exactly one group, holding all segments in ascending timestamp order,
\* whatever the slot order.
C8_OneGroupInOrder ==
    (Grouped /\ NoBusLegs /\ ChronologicalChain(call.departure_dates)) =>
        call.groups = <<SortedEntries(call.departure_dates, call.flight_numbers,
                                      Len(call.departure_dates))>>

\* row holds group in slots 1..Len(group), nothing in the other slots, and
\* the original's value in every other column
RowForGroup(row, group, original_row) ==
    /\ \A i \in 1..MAX_FLIGHT_ENTRIES :
          IF i <= Len(group)
          THEN /\ Get(row, Key(FLIGHT_NUMBER_PREFIX, i)) = group[i].flight_number
               /\ Parses(Get(row, Key(DEPARTURE_DATE_PREFIX, i)))
               /\ to_datetime(Get(row, Key(DEPARTURE_DATE_PREFIX, i)))
                     = group[i].departure_date
          ELSE /\ Get(row, Key(FLIGHT_NUMBER_PREFIX, i)) = None
               /\ Get(row, Key(DEPARTURE_DATE_PREFIX, i)) = None
    /\ \A c \in Columns \ SegmentColumns : Get(row, c) = Get(original_row, c)

\* the latest call split a row without bus legs whose segments were in
\* ascending order, at gaps of more than 24 hours only
CleanSplit ==
    /\ call.active
    /\ call.built # <<>>
    /\ NoBusLegs
    /\ Ascending(call.departure_dates)
    /\ BoundaryInclusive

\* C9 as stated, for such a split: the builders make one row per group, and
\* the row of a group of size N holds the group's entries in slots 1..N, null
\* in slots N+1..7 and the original's value in every other field.
C9_RowPerGroup ==
    CleanSplit =>
        /\ Len(call.built) = Len(call.groups)
        /\ \A g \in 1..Len(call.groups) :
              \E b \in 1..Len(call.built) :
                 RowForGroup(call.built[b], call.groups[g], call.row_data)

SlotOccupied(slot) == slot.flight_number \notin {None, "NULL"}

\* the occupied segment slots of a row, in slot order
OccupiedSlots(row) ==
    SelectSeq([i \in 1..MAX_FLIGHT_ENTRIES |->
                  LET d == Get(row, Key(DEPARTURE_DATE_PREFIX, i))
                  IN  FlightEntry(Get(row, Key(FLIGHT_NUMBER_PREFIX, i)),
                                  IF Parses(d) THEN to_datetime(d) ELSE 0 - 1)],
              SlotOccupied)

RECURSIVE ConcatSlots(_, _)
\* the occupied slots of the first n rows, one row after the other
ConcatSlots(rows, n) ==
    IF n = 0 THEN <<>> ELSE ConcatSlots(rows, n - 1) \o OccupiedSlots(rows[n])

\* the segments given to the grouper
FedSegments ==
    [i \in 1..Len(call.departure_dates) |->
        FlightEntry(call.flight_numbers[i], call.departure_dates[i])]

\* C10 as stated, for such a split that stored its rows: the occupied slots
\* of the rows written (the inserted row and the overwritten original, in
\* either order) are, concatenated, the segments given to the grouper.
C10_RoundTrip ==
    (CleanSplit /\ call.exc = None /\ Len(call.groups) >= 2) =>
        \/ ConcatSlots(<<call.ops[1].row, call.ops[2].row>>, 2) = FedSegments
        \/ ConcatSlots(<<call.ops[2].row, call.ops[1].row>>, 2) = FedSegments

----------------------------------------------------------------------------
(* Claims about duplicates, mismatched sequences and the caller's row *)

\* some value occurs at two positions of the sequence
HasDuplicate(values) ==
    \E i, j \in 1..Len(values) : i < j /\ values[i] = values[j]

FinalGroup == call.groups[Len(call.groups)]

\* a timestamp or a flight number occurs twice in the final group
DuplicateInFinalGroup ==
    \/ HasDuplicate([i \in 1..Len(FinalGroup) |-> FinalGroup[i].departure_date])
    \/ HasDuplicate([i \in 1..Len(FinalGroup) |-> FinalGroup[i].flight_number])

\* C11 as stated, for a row without bus legs whose repository calls all
\* succeed: when a timestamp or a flight number occurs twice in the final
\* group, a quarantine row is inserted and the original row is then removed
\* from the table, also when there is only one group.
C11_DuplicatesQuarantined ==
    (Grouped /\ NoBusLegs /\ call.exc = None /\ Len(call.groups) >= 1
        /\ DuplicateInFinalGroup) =>
        /\ Len(call.ops) >= 1
        /\ call.ops[1].op = "insert"
        /\ \A i \in 1..Len(table) : ~KeyMatches(table[i], call.row_data)

\* C12: when both extracted sequences are non-empty and of different
\* lengths, the grouper raises its processing error without forming a group,
\* and the result is failed, carries no group, and nothing was inserted or
\* updated.
C12_LengthMismatch ==
    (/\ call.active
     /\ call.departure_dates # <<>>
     /\ call.flight_numbers # <<>>
     /\ Len(call.departure_dates) # Len(call.flight_numbers)) =>
        /\ call.grouped
        /\ call.exc = "FlightProcessorError"
        /\ call.groups = <<>>
        /\ call.built = <<>>
        /\ call.ops = <<>>
        /\ table = call.table_before
        /\ ~call.result.success
        /\ call.result.groups = <<>>

\* a row with two flight numbers and one usable date failed in the grouper
C12_Witness ==
    /\ call.active
    /\ Len(call.flight_numbers) = 2
    /\ Len(call.departure_dates) = 1
    /\ call.exc = "FlightProcessorError"

\* C13: process_flight_row and the two builders leave the caller's row as it
\* was, whether the call succeeds or fails: the dict the loop handed over
\* (the fetched row) has every field unchanged afterwards, and what the
\* builders wrote went to other dicts.
C13_RowNotMutated ==
    call.active =>
        /\ call.row_data = df[index]
        /\ call.row_after = call.row_data
        /\ DOMAIN call.row_after = DOMAIN call.row_data

\* the builders made an insert row that differs from the original, and the
\* call then failed in the repository
C13_Witness ==
    /\ call.active
    /\ Len(call.built) = 2
    /\ call.built[1] # call.row_data
    /\ call.exc = "DatabaseError"
    /\ call.row_after = call.row_data

----------------------------------------------------------------------------
(* Claims about the order of the repository calls and the update row *)

\* the rows the table held before the call are as they were
StoredRowsUnchanged ==
    /\ Len(table) >= Len(call.table_before)
    /\ SubSeq(table, 1, Len(call.table_before)) = call.table_before

\* C14: update_flight runs only after both rows were built and insert_flight
\* returned; when insert_flight (or anything before it) raises, no update is
\* issued and the rows stored before the call are unchanged.
C14_UpdateAfterInsert ==
    call.active =>
        /\ \A i \in 1..Len(call.ops) :
              call.ops[i].op = "update" =>
                 /\ i = 2
                 /\ call.ops[1] = [op |-> "insert", row |-> call.built[1]]
                 /\ Len(call.built) = 2
                 /\ Len(table) = Len(call.table_before) + 1
        /\ (\A i \in 1..Len(call.ops) : call.ops[i].op # "update") => StoredRowsUnchanged
        /\ (call.exc # None /\ call.ops = <<>>) => table = call.table_before

\* insert_flight raised for a row that was to be split: nothing was stored
C14_Witness ==
    /\ call.active
    /\ Len(call.built) = 2
    /\ call.exc = "DatabaseError"
    /\ call.ops = <<>>
    /\ table = call.table_before

----------------------------------------------------------------------------
(* Claims about the grouper on its own and about the batch loop *)

RECURSIVE Flatten(_, _)
\* the entries of the first n groups, one group after the other
Flatten(groups, n) == IF n = 0 THEN <<>> ELSE Flatten(groups, n - 1) \o groups[n]

\* C15: on two sequences of equal length n the grouper raises nothing, every
\* group it returns is non-empty, and the groups one after the other are
\* exactly the n pairs (flight_numbers[i], departure_dates[i]) for i = 1..n,
\* each once; for n = 0 it returns no group.
C15_GroupsPartitionInput ==
    (pc = "grouped" /\ Len(call.departure_dates) = Len(call.flight_numbers)) =>
        /\ call.exc = None
        /\ \A g \in 1..Len(call.groups) : Len(call.groups[g]) >= 1
        /\ Flatten(call.groups, Len(call.groups))
              = [i \in 1..Len(call.departure_dates) |->
                    FlightEntry(call.flight_numbers[i], call.departure_dates[i])]
        /\ Len(call.departure_dates) = 0 => call.groups = <<>>

\* three segments came back as two groups
C15_Witness ==
    /\ pc = "grouped"
    /\ Len(call.departure_dates) = 3
    /\ Len(call.flight_numbers) = 3
    /\ Len(call.groups) = 2

\* what holds of the counters at every point of a batch run
BatchCounted ==
    /\ pc \in {"loop", "done"} =>
          /\ index <= Len(df)
          /\ success_count + error_count = index
          /\ (pc = "done" <=> index = Len(df))
          /\ index > 0 => call.row_data = df[index]
    /\ pc = "done" => success_count + error_count = Len(df)
    /\ pc = "aborted" => (index = 0 /\ df = <<>> /\ ~call.active)

\* what every step of the loop does: it takes the next fetched row, and that
\* row only
NextRowInFetchOrder ==
    pc = "loop" =>
        /\ index' = index + 1
        /\ call'.row_data = df[index + 1]
        /\ df' = df
        /\ pc' \in {"loop", "done"}

\* C17: the loop takes the fetched rows one at a time in fetch order, each
\* once; success_count + error_count is the number of rows taken so far and,
\* when the loop ends, the number of rows fetched, whatever the rows' results
\* were; the run is aborted only when the fetch fails, before any row.
C17_BatchAccounting == [](BatchCounted) /\ [][NextRowInFetchOrder]_vars

\* a batch of two rows ended with one successful and one failed result
C17_Witness ==
    /\ pc = "done"
    /\ Len(df) = 2
    /\ success_count = 1
    /\ error_count = 1

====
